---- MODULE Spec2Model ----
(***************************************************************************)
(* Model of goose-jira-analyzer: an MCP tool server that reads a remote     *)
(* JIRA issue tracker.  The repository holds three variants of the server:  *)
(*   "pkg"   src/jira_analyzer/analyzer.py + src/jira_analyzer/server.py    *)
(*   "block" src/jira_analyzer/src/server.py                                *)
(*   "basic" src/server.py                                                  *)
(* Each variant owns one JiraAnalyzer whose only state is self.jira.  The   *)
(* dispatcher runs one tool invocation at a time.                           *)
(***************************************************************************)
EXTENDS Integers, Sequences, FiniteSets, TLC

VARIABLES
    variant,    \* which of the three server files is running
    jira,       \* JiraAnalyzer.jira: NoSession or a session handle
    server,     \* JiraAnalyzer.server (the "block" variant only)
    opened,     \* number of client sessions constructed so far
    succeeded,  \* history: some connect call has returned True
    remote,     \* the data held by the remote issue tracker
    ret,        \* outcome of the latest tool invocation
    calls,      \* remote client calls issued by the latest invocation
    pc,         \* "idle", or "walk" while analyze_issue_relationships runs
    depth,      \* the depth argument of the running relationship analysis
    stack,      \* call stack of get_linked_issues
    visited,    \* the visited set shared by the recursion
    visits      \* history: <<key, level>> of every issue expanded, in order

vars == <<variant, jira, server, opened, succeeded, remote, ret, calls,
          pc, depth, stack, visited, visits>>

----------------------------------------------------------------------------
(* Bounds of the model *)

MaxSessions == 2     \* sessions that may be constructed in one run
MaxLinks    == 3     \* issue links stored by the remote tracker
MaxDepth    == 3     \* largest depth argument tried (smallest is -1)
MaxStack    == 6     \* frames of get_linked_issues the interpreter allows
MaxTail     == 2     \* words appended to the bulk description
MaxRelated  == 2     \* length of the related_projects argument

(* Program constants *)

TopN          == 50    \* analyzer.py:216  [:50]
TextMaxResults    == 1000  \* analyzer.py:167  maxResults=1000
XrefMaxResults    == 100   \* analyzer.py:240  maxResults=100
SearchMaxResults  == 100   \* analyzer.py:96   max_results: int = 100
BlockMaxResults   == 50    \* jira_analyzer/src/server.py:36  max_results: int = 50
MetricsMaxResults == 1000  \* server.py:41  maxResults=1000
MinWordLen    == 3     \* analyzer.py:188  len(word) > 3
FirstLevel    == 1     \* analyzer.py:155  get_linked_issues(issue_key, 1, set())

----------------------------------------------------------------------------
(* Values *)

None      == "<None>"      \* Python None where a string is expected
NoSession == 0             \* self.jira = None
NoError   == "<no error>"  \* the invocation returned normally

NotConnected == "Not connected to JIRA"

Variants == {"pkg", "block", "basic"}

Keys     == {"P-1", "P-2", "Q-1"}
RootKey  == "P-1"
Projects == {"P", "Q", "R"}
CompNames == {"api", "ui"}

\* Python truthiness of an optional string: None and "" are falsy.
Truthy(s) == s # None /\ s # ""

\* Python truthiness of self.jira: None is falsy, a JIRA client object is truthy.
HasSession(j) == j # NoSession

Usernames == {None, "user"}
Tokens    == {None, "", "tok"}

\* Faults the remote client can raise while a session is established.
ConnectFaults == {"HTTP 401", "timed out"}

----------------------------------------------------------------------------
(* Strings are sequences of one-character strings. *)

Whitespace == {" ", "\n", "\t"}

\* str.lower() on the alphabet of the model.
Lower(c) ==
    CASE c = "W" -> "w"
      [] c = "X" -> "x"
      [] c = "A" -> "a"
      [] OTHER   -> c

LowerStr(s) == [i \in 1..Len(s) |-> Lower(s[i])]

\* str.split() with no argument: the maximal runs of non-whitespace
\* characters of s[lo..hi], in order.  A range with no whitespace is one
\* word; any other range is cut at the whitespace nearest to its middle,
\* which keeps the evaluation shallow on long texts.
Distance(a, b) == IF a < b THEN b - a ELSE a - b

RECURSIVE SplitRange(_, _, _)
SplitRange(s, lo, hi) ==
    IF lo > hi THEN <<>>
    ELSE LET ws == {j \in lo..hi : s[j] \in Whitespace}
             mid == (lo + hi) \div 2
         IN  IF ws = {} THEN <<SubSeq(s, lo, hi)>>
             ELSE LET m == CHOOSE j \in ws :
                               \A x \in ws : Distance(j, mid) <= Distance(x, mid)
                  IN  SplitRange(s, lo, m - 1) \o SplitRange(s, m + 1, hi)

Split(s) == SplitRange(s, 1, Len(s))

\* issue.fields.description is None, or a string; None and "" are falsy.
NoDescription == <<None>>
HasDescription(d) == d # NoDescription /\ d # <<>>

----------------------------------------------------------------------------
(* A dict (insertion ordered, as Python's) is a sequence of [k, v] items. *)

EmptyDict == <<>>

DictKeys(d) == {d[i].k : i \in 1..Len(d)}

DictGet(d, key, default) ==
    IF key \in DictKeys(d)
    THEN d[CHOOSE i \in 1..Len(d) : d[i].k = key].v
    ELSE default

\* The position of key in d.
DictPos(d, key) == CHOOSE i \in 1..Len(d) : d[i].k = key

\* d[key] = val: an existing key keeps its place and takes the new value, a
\* new key goes to the end of the dict.
DictSet(d, key, val) ==
    IF key \in DictKeys(d)
    THEN LET p == DictPos(d, key)
         IN  SubSeq(d, 1, p - 1) \o <<[k |-> key, v |-> val]>> \o SubSeq(d, p + 1, Len(d))
    ELSE Append(d, [k |-> key, v |-> val])

\* defaultdict(int): d[key] += 1.
Incr(d, key) == DictSet(d, key, DictGet(d, key, 0) + 1)

\* for key in keys[lo..hi]: d[key] += 1.  The loop is folded over the two
\* halves of the range in turn, which keeps the evaluation shallow.
RECURSIVE IncrRange(_, _, _, _)
IncrRange(d, keys, lo, hi) ==
    IF lo > hi THEN d
    ELSE IF lo = hi THEN Incr(d, keys[lo])
    ELSE LET mid  == (lo + hi) \div 2
             left == IncrRange(d, keys, lo, mid)
         IN  IF Len(left) > 0 THEN IncrRange(left, keys, mid + 1, hi) ELSE left

IncrAll(d, keys) == IncrRange(d, keys, 1, Len(keys))

\* sorted(items, key=lambda x: x[1], reverse=True): a stable sort, so items
\* of equal count keep their order in the dict.  Each item is inserted
\* behind every item whose count is at least its own.  InsertDescUnstable is
\* what a sort that does not keep that order would do.
InsertDescUnstable(sorted, x) ==
    LET before == {i \in 1..Len(sorted) : sorted[i].v > x.v}
        n      == Cardinality(before)
    IN  SubSeq(sorted, 1, n) \o <<x>> \o SubSeq(sorted, n + 1, Len(sorted))

InsertDesc(sorted, x) ==
    LET before == {i \in 1..Len(sorted) : sorted[i].v >= x.v}
        n      == Cardinality(before)
    IN  SubSeq(sorted, 1, n) \o <<x>> \o SubSeq(sorted, n + 1, Len(sorted))

\* The items of items[lo..hi] inserted one after the other, in order.
RECURSIVE SortRange(_, _, _, _)
SortRange(sorted, items, lo, hi) ==
    IF lo > hi THEN sorted
    ELSE IF lo = hi THEN InsertDesc(sorted, items[lo])
    ELSE LET mid  == (lo + hi) \div 2
             left == SortRange(sorted, items, lo, mid)
         IN  IF Len(left) > 0 THEN SortRange(left, items, mid + 1, hi) ELSE left

SortedByCountDesc(items) == SortRange(<<>>, items, 1, Len(items))

\* seq[:n]
Take(seq, n) == SubSeq(seq, 1, IF Len(seq) < n THEN Len(seq) ELSE n)

\* True division a / b, kept exact as a fraction; b = 0 raises.
ZeroDivision == "division by zero"
Fraction(a, b) == [num |-> a, den |-> b]
Zero == Fraction(0, 1)

----------------------------------------------------------------------------
(* analyze_text_content, from the issues the search returned. *)

\* Line 188 with >= in place of >.
CountedWordsFromThree(description) ==
    IF HasDescription(description)
    THEN LET words == Split(LowerStr(description))
         IN  SelectSeq(words, LAMBDA w : Len(w) >= MinWordLen)
    ELSE <<>>

\* Lines 185-189: the words of one description that are counted.
CountedWords(description) ==
    IF HasDescription(description)
    THEN LET words == Split(LowerStr(description))
         IN  SelectSeq(words, LAMBDA w : Len(w) > MinWordLen)
    ELSE <<>>

\* Lines 192-199 for one issue: the comments visited by the loop.
CommentsOf(issue) ==
    IF "comment" \in issue.attrs THEN issue.comments ELSE <<>>

RECURSIVE SumLen(_, _)
SumLen(comments, i) ==
    IF i > Len(comments) THEN 0 ELSE Len(comments[i].body) + SumLen(comments, i + 1)

\* Lines 183-207: one pass of the loop body over an issue.
TextStep(acc, issue) ==
    LET cs == CommentsOf(issue)
    IN  [common_terms |-> IncrAll(acc.common_terms, CountedWords(issue.description)),
         labels       |-> IncrAll(acc.labels, issue.labels),
         components_referenced |-> IncrAll(acc.components_referenced, issue.components),
         total_comments |-> acc.total_comments + Len(cs),
         total_comment_length |-> acc.total_comment_length + SumLen(cs, 1),
         comment_frequency |->
             IncrAll(acc.comment_frequency, [i \in 1..Len(cs) |-> cs[i].created.day])]

\* Lines 169-181: the tables before the loop.
TextStart ==
    [common_terms |-> EmptyDict, labels |-> EmptyDict,
     components_referenced |-> EmptyDict, total_comments |-> 0,
     total_comment_length |-> 0, comment_frequency |-> EmptyDict]

RECURSIVE TextLoop(_, _, _)
TextLoop(acc, issues, i) ==
    IF i > Len(issues) THEN acc ELSE TextLoop(TextStep(acc, issues[i]), issues, i + 1)

\* Line 210: the guard of the division.
AverageGuardUnconditional(total) == TRUE
AverageGuard(total) == total > 0

\* Lines 209-222: average, sort, truncation and the returned mapping.
\* The result is [raised, value]; the division is the only step that can raise.
AnalyzeText(issues) ==
    LET acc == TextLoop(TextStart, issues, 1)
        divides == AverageGuard(acc.total_comments)
    IN  IF divides /\ acc.total_comments = 0
        THEN [raised |-> ZeroDivision, value |-> <<>>]
        ELSE [raised |-> NoError,
              value |->
                [common_terms |-> Take(SortedByCountDesc(acc.common_terms), TopN),
                 mentions |-> EmptyDict,
                 labels |-> SortedByCountDesc(acc.labels),
                 components_referenced |-> SortedByCountDesc(acc.components_referenced),
                 comment_patterns |->
                    [total_comments |-> acc.total_comments,
                     avg_comment_length |->
                        IF divides
                        THEN Fraction(acc.total_comment_length, acc.total_comments)
                        ELSE Zero,
                     comment_frequency |-> acc.comment_frequency]]]

----------------------------------------------------------------------------
(* The remote tracker, as the client library shows it. *)

LinkType == [outward |-> "blocks", inward |-> "is blocked by"]

SummaryOf(k) == <<"summary of", k>>
StatusOf(k)  == IF k = RootKey THEN "Open" ELSE "Done"

\* issue.fields.issuelinks of issue k: one link object per stored link that
\* touches k, with outwardIssue when k is the source and inwardIssue when k
\* is the destination.
LinkObjects(r, k) ==
    LET touching == SelectSeq(r.links, LAMBDA l : l.src = k \/ l.dst = k)
    IN  [i \in 1..Len(touching) |->
            [attrs |-> (IF touching[i].src = k THEN {"outwardIssue"} ELSE {})
                        \cup (IF touching[i].dst = k THEN {"inwardIssue"} ELSE {}),
             outwardIssue |-> touching[i].dst,
             inwardIssue  |-> touching[i].src,
             type |-> LinkType]]

\* The text fields of issue k, when the tracker holds them.
DefaultText(k) ==
    [key |-> k, description |-> NoDescription, comments |-> <<>>,
     labels |-> <<>>, components |-> <<>>, attrs |-> {"comment"},
     issuetype |-> "Task", priority |-> None]

TextOf(r, k) ==
    IF \E i \in 1..Len(r.issues) : r.issues[i].key = k
    THEN r.issues[CHOOSE i \in 1..Len(r.issues) : r.issues[i].key = k]
    ELSE DefaultText(k)

\* jira.issue(key): the issue resource.  The issuelinks field is absent from
\* an issue no link touches.
RemoteIssue(r, k) ==
    LET t == TextOf(r, k)
        ls == LinkObjects(r, k)
    IN  [key |-> k, summary |-> SummaryOf(k), status |-> StatusOf(k),
         description |-> t.description, comments |-> t.comments,
         labels |-> t.labels, components |-> t.components,
         issuetype |-> t.issuetype, priority |-> t.priority,
         attrs |-> t.attrs \cup (IF ls = <<>> THEN {} ELSE {"issuelinks"}),
         issuelinks |-> ls]

ProjectOf(k) == IF k = "Q-1" THEN "Q" ELSE "P"

\* jira.search_issues(jql, maxResults=n): at most n issues of the project the
\* query names.  The remaining JQL terms are evaluated by the tracker; the
\* model lets them match every issue of the project.
RemoteSearch(r, project, n) ==
    LET found == SelectSeq(r.issues, LAMBDA i : ProjectOf(i.key) = project)
    IN  [i \in 1..(IF Len(found) < n THEN Len(found) ELSE n) |->
            RemoteIssue(r, found[i].key)]

\* A remote call, as recorded in calls: the client method, its argument and
\* how it ended ("ok", or the fault it raised).
Call(method, arg, outcome) == [method |-> method, arg |-> arg, outcome |-> outcome]

\* The client methods that only read the tracker: opening a session, and the
\* current-user, issue, search, project and project-components resources.
ReadMethods == {"JIRA", "myself", "issue", "search_issues", "project",
                "project_components"}

\* The tracker after one call.  A read leaves it as it is; add_comment, the
\* client's method that writes a comment, would add the comment to the issue.
RemoteAfterCall(r, c) ==
    IF c.method = "add_comment"
    THEN [r EXCEPT !.issues =
            [i \in 1..Len(r.issues) |->
                IF r.issues[i].key = c.arg
                THEN [r.issues[i] EXCEPT !.comments =
                        Append(@, [body |-> <<"a">>,
                                   created |-> [day |-> "2024-01-03", time |-> "T10:00:00"]])]
                ELSE r.issues[i]]]
    ELSE r

RECURSIVE RemoteAfterFrom(_, _, _)
RemoteAfterFrom(r, cs, i) ==
    IF i > Len(cs) THEN r ELSE RemoteAfterFrom(RemoteAfterCall(r, cs[i]), cs, i + 1)

\* The tracker after the calls cs, in order.
RemoteAfter(r, cs) == RemoteAfterFrom(r, cs, 1)

----------------------------------------------------------------------------
(* Connecting *)

ServerUrl == "https://jira.example"

Outcomes == {"ok"} \cup ConnectFaults

\* What connect returns: True, or a string.
ReturnTrue   == [kind |-> "bool", text |-> "True"]
ReturnStr(m) == [kind |-> "str", text |-> m]
NoReturn     == [kind |-> "none", text |-> None]

\* try: ... return True / except Exception as e: return str(e)
\* ConnectReturnUncaught is connect without the except clause.
ConnectReturnUncaught(fault) ==
    IF fault = "ok"
    THEN [raised |-> NoError, result |-> ReturnTrue]
    ELSE [raised |-> fault, result |-> NoReturn]

ConnectReturn(fault) ==
    IF fault = "ok"
    THEN [raised |-> NoError, result |-> ReturnTrue]
    ELSE [raised |-> NoError, result |-> ReturnStr(fault)]

\* The authentication the client is constructed with: basic_auth when both
\* username and api_token are truthy, token_auth=api_token otherwise.
AuthOf(username, api_token) ==
    IF Truthy(username) /\ Truthy(api_token)
    THEN [scheme |-> "basic_auth", user |-> username, token |-> api_token]
    ELSE [scheme |-> "token_auth", user |-> None, token |-> api_token]

SuccessText(v) ==
    IF v = "pkg" THEN "Successfully connected to JIRA in read-only mode"
    ELSE "Successfully connected to JIRA"

\* connect_to_jira: the string returned for what connect returned.
ToolText(v, c) ==
    IF c.result.kind = "bool"
    THEN [text |-> SuccessText(v), detail |-> None]
    ELSE [text |-> "Failed to connect: ", detail |-> c.result.text]

ConnectRet(args, c, text) ==
    [op |-> "connect_to_jira", args |-> args, raised |-> c.raised,
     value |-> [result |-> c.result, text |-> text.text, detail |-> text.detail]]

Idle == pc = "idle"

WalkerUnchanged == UNCHANGED <<pc, depth, stack, visited, visits>>

\* "pkg" and "basic": connect(server, username, api_token) behind connect_to_jira.
\* The client constructor either returns a session or raises.
ConnectToJira(username, api_token, outcome) ==
    /\ Idle
    /\ variant \in {"pkg", "basic"}
    /\ outcome = "ok" => opened < MaxSessions
    /\ LET c == ConnectReturn(outcome)
           args == [username |-> username, api_token |-> api_token]
       IN  /\ calls' = <<Call("JIRA", AuthOf(username, api_token), outcome)>>
           /\ jira' = IF outcome = "ok" THEN opened + 1 ELSE jira
           /\ opened' = IF outcome = "ok" THEN opened + 1 ELSE opened
           /\ succeeded' = (succeeded \/ (c.raised = NoError /\ c.result = ReturnTrue))
           /\ ret' = ConnectRet(args, c,
                                IF c.raised = NoError THEN ToolText(variant, c)
                                ELSE [text |-> None, detail |-> None])
    /\ remote' = RemoteAfter(remote, calls')
    /\ WalkerUnchanged
    /\ UNCHANGED <<variant, server>>

\* "block": connect_to_jira(server, api_token) without a token returns early.
ConnectBlockNoToken(api_token) ==
    /\ Idle
    /\ variant = "block"
    /\ ~Truthy(api_token)
    /\ calls' = <<>>
    /\ ret' = [op |-> "connect_to_jira",
               args |-> [username |-> None, api_token |-> api_token],
               raised |-> NoError,
               value |-> [result |-> NoReturn,
                          text |-> "Please provide your JIRA API token",
                          detail |-> None]]
    /\ WalkerUnchanged
    /\ UNCHANGED <<variant, jira, server, opened, succeeded, remote>>

\* "block": connect(server, api_token).  self.server and self.jira are
\* assigned before self.jira.myself() tests the session.
ConnectBlock(api_token, ctor, myself) ==
    /\ Idle
    /\ variant = "block"
    /\ Truthy(api_token)
    /\ ctor = "ok" => opened < MaxSessions
    /\ LET fault == IF ctor = "ok" THEN myself ELSE ctor
           c == ConnectReturn(fault)
           args == [username |-> None, api_token |-> api_token]
           auth == [scheme |-> "token_auth", user |-> None, token |-> api_token]
       IN  /\ calls' = IF ctor = "ok"
                       THEN <<Call("JIRA", auth, ctor), Call("myself", None, myself)>>
                       ELSE <<Call("JIRA", auth, ctor)>>
           /\ server' = ServerUrl
           /\ jira' = IF ctor = "ok" THEN opened + 1 ELSE jira
           /\ opened' = IF ctor = "ok" THEN opened + 1 ELSE opened
           /\ succeeded' = (succeeded \/ (c.raised = NoError /\ c.result = ReturnTrue))
           /\ ret' = ConnectRet(args, c,
                                IF c.raised = NoError THEN ToolText(variant, c)
                                ELSE [text |-> None, detail |-> None])
    /\ remote' = RemoteAfter(remote, calls')
    /\ WalkerUnchanged
    /\ UNCHANGED <<variant>>

----------------------------------------------------------------------------
(* The analysis operations.  Each starts with                              *)
(*     if not self.jira: raise Exception("Not connected to JIRA")           *)

MustRefuse(j) == ~HasSession(j)

Refused(op, args) == [op |-> op, args |-> args, raised |-> NotConnected, value |-> <<>>]
Returned(op, args, value) == [op |-> op, args |-> args, raised |-> NoError, value |-> value]

\* An operation that changes nothing but ret and calls: it is refused without
\* a remote call, or it issues the calls cs and returns or raises as out says.
Invoke(op, args, cs, out) ==
    /\ Idle
    /\ IF MustRefuse(jira)
       THEN ret' = Refused(op, args) /\ calls' = <<>>
       ELSE /\ calls' = cs
            /\ ret' = [op |-> op, args |-> args, raised |-> out.raised, value |-> out.value]
    /\ remote' = RemoteAfter(remote, calls')
    /\ WalkerUnchanged
    /\ UNCHANGED <<variant, jira, server, opened, succeeded>>

Ok(value) == [raised |-> NoError, value |-> value]

\* The record both search_issues and the cross-project lists build per issue.
Summary(issue) ==
    [key |-> issue.key, summary |-> issue.summary, type |-> issue.issuetype,
     status |-> issue.status, priority |-> issue.priority]

\* Lines 61-75 of analyzer.py: the links list of get_issue_details.
RECURSIVE DetailLinks(_, _)
DetailLinks(ls, i) ==
    IF i > Len(ls) THEN <<>>
    ELSE (IF "outwardIssue" \in ls[i].attrs
          THEN <<[type |-> ls[i].type.outward, key |-> ls[i].outwardIssue,
                  status |-> StatusOf(ls[i].outwardIssue)]>>
          ELSE <<>>)
         \o (IF "inwardIssue" \in ls[i].attrs
             THEN <<[type |-> ls[i].type.inward, key |-> ls[i].inwardIssue,
                     status |-> StatusOf(ls[i].inwardIssue)]>>
             ELSE <<>>)
         \o DetailLinks(ls, i + 1)

IssueDetails(v, issue) ==
    [key |-> issue.key, summary |-> issue.summary, description |-> issue.description,
     status |-> issue.status, priority |-> issue.priority, labels |-> issue.labels,
     comments |-> issue.comments,
     links |-> IF v = "pkg" /\ "issuelinks" \in issue.attrs
               THEN DetailLinks(issue.issuelinks, 1) ELSE <<>>]

\* The remote calls of get_issue_details: one issue read.  DetailCallsWriting
\* is what an implementation that also wrote to the issue would issue.
DetailCallsWriting(issue_key) ==
    <<Call("issue", issue_key, "ok"), Call("add_comment", issue_key, "ok")>>

DetailCalls(issue_key) == <<Call("issue", issue_key, "ok")>>

GetIssueDetails(issue_key) ==
    /\ variant \in {"pkg", "block"}
    /\ Invoke("get_issue_details", [issue_key |-> issue_key],
              DetailCalls(issue_key),
              Ok(IssueDetails(variant, RemoteIssue(remote, issue_key))))

SearchIssues(project, max_results) ==
    /\ variant \in {"pkg", "block"}
    /\ LET found == RemoteSearch(remote, project, max_results)
       IN  Invoke("search_issues", [project |-> project, max_results |-> max_results],
                  <<Call("search_issues", project, "ok")>>,
                  Ok([i \in 1..Len(found) |-> Summary(found[i])]))

AnalyzeTextContent(project_key) ==
    /\ variant = "pkg"
    /\ Invoke("analyze_text_content", [project_key |-> project_key],
              <<Call("search_issues", project_key, "ok")>>,
              AnalyzeText(RemoteSearch(remote, project_key, TextMaxResults)))

\* get_project_info: the project resource, flattened.
GetProjectInfo(project_key) ==
    /\ variant \in {"block", "basic"}
    /\ Invoke("get_project_info", [project_key |-> project_key],
              <<Call("project", project_key, "ok")>>,
              Ok([key |-> project_key, name |-> <<"project", project_key>>]))

\* analyze_project_metrics: issue counts by type, status and priority.
Metrics(issues) ==
    [total_issues |-> Len(issues),
     by_type |-> IncrAll(EmptyDict, [i \in 1..Len(issues) |-> issues[i].issuetype]),
     by_status |-> IncrAll(EmptyDict, [i \in 1..Len(issues) |-> issues[i].status]),
     by_priority |-> IncrAll(EmptyDict,
                        [i \in 1..Len(issues) |->
                            IF issues[i].priority # None THEN issues[i].priority
                            ELSE "No Priority"])]

AnalyzeProjectMetrics(project_key) ==
    /\ variant \in {"block", "basic"}
    /\ Invoke("analyze_project_metrics", [project_key |-> project_key],
              <<Call("search_issues", project_key, "ok")>>,
              Ok(Metrics(RemoteSearch(remote, project_key, MetricsMaxResults))))

\* The jira-help resource: a lookup in a fixed table, with no session needed.
HelpTopics == {"connection", "analysis", "security"}

GetHelp(topic) ==
    /\ Idle
    /\ variant = "pkg"
    /\ calls' = <<>>
    /\ ret' = Returned("get_help", [topic |-> topic],
                       IF topic \in HelpTopics THEN <<"help", topic>>
                       ELSE <<"help", "Topic not found">>)
    /\ WalkerUnchanged
    /\ UNCHANGED <<variant, jira, server, opened, succeeded, remote>>

----------------------------------------------------------------------------
(* get_cross_project_references *)

\* defaultdict(list): d[key].append(x) for each x of items, in order.
DictExtend(d, key, items) ==
    IF items = <<>> THEN d ELSE DictSet(d, key, DictGet(d, key, <<>>) \o items)

\* {c.name for c in self.jira.project_components(project)}
ComponentNames(r, project) == {c : c \in r.components[project]}

\* Line 268 with a union in place of the intersection.
SharedUnion(main_components, related_components) ==
    main_components \cup related_components

\* Line 268: main_components.intersection(related_components)
Shared(main_components, related_components) ==
    main_components \cap related_components

\* Lines 238-271: the loop body for one related project.
XrefStep(refs, r, project_key, related_project) ==
    LET outgoing_issues == RemoteSearch(r, project_key, XrefMaxResults)
        incoming_issues == RemoteSearch(r, related_project, XrefMaxResults)
        shared == Shared(ComponentNames(r, project_key),
                         ComponentNames(r, related_project))
    IN  [outgoing |-> DictExtend(refs.outgoing, related_project,
                        [i \in 1..Len(outgoing_issues) |-> Summary(outgoing_issues[i])]),
         incoming |-> DictExtend(refs.incoming, related_project,
                        [i \in 1..Len(incoming_issues) |-> Summary(incoming_issues[i])]),
         shared_components |->
            IF shared # {} THEN DictSet(refs.shared_components, related_project, shared)
            ELSE refs.shared_components,
         related_issues |-> <<>>]

XrefCalls(project_key, related_project) ==
    <<Call("search_issues", project_key, "ok"),
      Call("search_issues", related_project, "ok"),
      Call("project_components", project_key, "ok"),
      Call("project_components", related_project, "ok")>>

RECURSIVE XrefLoop(_, _, _, _, _)
XrefLoop(refs, r, project_key, related_projects, i) ==
    IF i > Len(related_projects) THEN refs
    ELSE XrefLoop(XrefStep(refs, r, project_key, related_projects[i]),
                  r, project_key, related_projects, i + 1)

RECURSIVE XrefAllCalls(_, _, _)
XrefAllCalls(project_key, related_projects, i) ==
    IF i > Len(related_projects) THEN <<>>
    ELSE XrefCalls(project_key, related_projects[i])
         \o XrefAllCalls(project_key, related_projects, i + 1)

XrefStart ==
    [outgoing |-> EmptyDict, incoming |-> EmptyDict,
     shared_components |-> EmptyDict, related_issues |-> <<>>]

\* The types the json encoder accepts.
JsonTypes == {"dict", "list", "str", "int", "float", "bool", "NoneType"}

\* Lines 266-268: the intersection of two set comprehensions is a set.
SharedType == "set"

\* The Python types of the values inside the result of
\* get_cross_project_references: the result and its three tables are dicts
\* (lines 229-234, 273), the reference tables hold lists of dicts of strings
\* (lines 246-262), and each entry of shared_components holds what line 271
\* stored.
XrefTypes(value) ==
    {"dict", "list"}
    \cup (IF value.outgoing # EmptyDict \/ value.incoming # EmptyDict
          THEN {"str"} ELSE {})
    \cup {SharedType : i \in 1..Len(value.shared_components)}
    \cup {"str" : i \in 1..Len(value.shared_components)}

\* The Python types of the values inside what each operation returns.
ReturnTypes(op, value) ==
    CASE op = "get_cross_project_references" -> XrefTypes(value)
      [] op \in {"connect_to_jira", "get_help"} -> {"str"}
      [] op = "analyze_text_content" -> {"dict", "str", "int", "float"}
      [] op = "analyze_project_metrics" -> {"dict", "str", "int"}
      [] op = "analyze_issue_relationships" -> {"dict", "str"}
      [] op = "get_project_info" -> {"dict", "str", "NoneType"}
      [] OTHER -> {"dict", "list", "str", "NoneType"}

GetCrossProjectReferences(project_key, related_projects) ==
    /\ variant = "pkg"
    /\ Invoke("get_cross_project_references",
              [project_key |-> project_key, related_projects |-> related_projects],
              XrefAllCalls(project_key, related_projects, 1),
              Ok(XrefLoop(XrefStart, remote, project_key, related_projects, 1)))

----------------------------------------------------------------------------
(* analyze_issue_relationships: the recursion of get_linked_issues, one      *)
(* frame of the stack per call.                                             *)

\* Line 125 without the visited test, without the depth test, without both.
StopDepthOnly(key, current_depth, d, seen) == current_depth > d
StopVisitedOnly(key, current_depth, d, seen) == key \in seen
StopNever(key, current_depth, d, seen) == FALSE

\* Line 125: if current_depth > depth or key in visited: return {}
StopExpansion(key, current_depth, d, seen) ==
    current_depth > d \/ key \in seen

\* Lines 132-149: the recursive calls one issue makes, in order: for each
\* link its outwardIssue, then its inwardIssue, when the link has them.
RECURSIVE LinkTargets(_, _)
LinkTargets(ls, i) ==
    IF i > Len(ls) THEN <<>>
    ELSE (IF "outwardIssue" \in ls[i].attrs
          THEN <<[key |-> ls[i].outwardIssue, type |-> ls[i].type.outward]>>
          ELSE <<>>)
         \o (IF "inwardIssue" \in ls[i].attrs
             THEN <<[key |-> ls[i].inwardIssue, type |-> ls[i].type.inward]>>
             ELSE <<>>)
         \o LinkTargets(ls, i + 1)

TargetsOf(issue) ==
    IF "issuelinks" \in issue.attrs THEN LinkTargets(issue.issuelinks, 1) ELSE <<>>

\* A call get_linked_issues(key, level, visited) that has not run yet.
Frame(key, level) ==
    [key |-> key, level |-> level, phase |-> "enter",
     targets |-> <<>>, idx |-> 1, links |-> EmptyDict]

\* The entry stored for a link target whose recursive call returned nested.
Entry(target, nested) ==
    [type |-> target.type, summary |-> SummaryOf(target.key),
     status |-> StatusOf(target.key), links |-> nested]

Top == stack[Len(stack)]
Rest == SubSeq(stack, 1, Len(stack) - 1)

RecursionError == "maximum recursion depth exceeded"

AnalyzeIssueRelationships(issue_key, d) ==
    /\ Idle
    /\ variant = "pkg"
    /\ calls' = <<>>
    /\ IF MustRefuse(jira)
       THEN /\ ret' = Refused("analyze_issue_relationships",
                              [issue_key |-> issue_key, depth |-> d])
            /\ WalkerUnchanged
       ELSE /\ ret' = Returned("analyze_issue_relationships",
                               [issue_key |-> issue_key, depth |-> d], <<>>)
            /\ pc' = "walk"
            /\ depth' = d
            /\ stack' = <<Frame(issue_key, FirstLevel)>>
            /\ visited' = {}
            /\ visits' = <<>>
    /\ UNCHANGED <<variant, jira, server, opened, succeeded, remote>>

\* Line 129: issue = self.jira.issue(key)
WalkCalls(key) == <<Call("issue", key, "ok")>>

\* Lines 128-130: the call on top of the stack passes the test of line 125,
\* marks its key visited and fetches the issue.
WalkExpand ==
    /\ pc = "walk"
    /\ Top.phase = "enter"
    /\ ~StopExpansion(Top.key, Top.level, depth, visited)
    /\ visited' = visited \cup {Top.key}
    /\ visits' = Append(visits, [key |-> Top.key, level |-> Top.level])
    /\ calls' = calls \o WalkCalls(Top.key)
    /\ remote' = RemoteAfter(remote, WalkCalls(Top.key))
    /\ stack' = Append(Rest, [Top EXCEPT !.phase = "loop",
                                         !.targets = TargetsOf(RemoteIssue(remote, Top.key))])
    /\ UNCHANGED <<variant, jira, server, opened, succeeded, ret, pc, depth>>

\* Lines 140 and 148: the recursive call for the next link target.  The
\* interpreter raises RecursionError when the stack is full.
WalkCall ==
    /\ pc = "walk"
    /\ Top.phase = "loop"
    /\ Top.idx <= Len(Top.targets)
    /\ IF Len(stack) < MaxStack
       THEN /\ stack' = Append(stack, Frame(Top.targets[Top.idx].key, Top.level + 1))
            /\ UNCHANGED <<ret, pc>>
       ELSE /\ stack' = <<>>
            /\ pc' = "idle"
            /\ ret' = [ret EXCEPT !.raised = RecursionError]
    /\ UNCHANGED <<variant, jira, server, opened, succeeded, remote, calls,
                   depth, visited, visits>>

\* Lines 126 and 151: the call on top of the stack returns, {} when line 125
\* stops it, its links otherwise.  The caller stores the entry (lines 136-141
\* and 144-149); the outermost caller returns the result (lines 153-156).
WalkReturn ==
    /\ pc = "walk"
    /\ \/ Top.phase = "enter" /\ StopExpansion(Top.key, Top.level, depth, visited)
       \/ Top.phase = "loop" /\ Top.idx > Len(Top.targets)
    /\ LET value == IF Top.phase = "enter" THEN EmptyDict ELSE Top.links
       IN  IF Len(stack) = 1
           THEN /\ stack' = <<>>
                /\ pc' = "idle"
                /\ ret' = [ret EXCEPT !.value = [key |-> ret.args.issue_key,
                                                 relationships |-> value]]
           ELSE LET caller == stack[Len(stack) - 1]
                    target == caller.targets[caller.idx]
                IN  /\ stack' = Append(SubSeq(stack, 1, Len(stack) - 2),
                                  [caller EXCEPT
                                     !.links = DictSet(caller.links, target.key,
                                                       Entry(target, value)),
                                     !.idx = caller.idx + 1])
                    /\ UNCHANGED <<ret, pc>>
    /\ UNCHANGED <<variant, jira, server, opened, succeeded, remote, calls,
                   depth, visited, visits>>

WalkStep == WalkExpand \/ WalkCall \/ WalkReturn

----------------------------------------------------------------------------
(* The trackers the model is run against. *)

\* Link stores: up to MaxLinks typed links between the issues, self-links,
\* repeated links and links in both directions included.
AllLinkStores == UNION {[1..n -> [src : Keys, dst : Keys]] : n \in 0..MaxLinks}

\* The issue keys at the ends of the links, in the order the store names them.
Ends(l) ==
    [i \in 1..(2 * Len(l)) |-> IF i % 2 = 1 THEN l[(i + 1) \div 2].src
                                ELSE l[i \div 2].dst]

\* The walk from the root treats the other keys alike, so of two stores that
\* differ by exchanging the two other keys one is kept: the one that names
\* "P-2" first.
NamesSecondFirst(l) ==
    LET others == {i \in DOMAIN Ends(l) : Ends(l)[i] # RootKey}
    IN  others = {} \/ Ends(l)[CHOOSE i \in others : \A j \in others : i <= j] = "P-2"

LinkStores == {l \in AllLinkStores : NamesSecondFirst(l)}

Depths == (0 - 1)..MaxDepth

\* Descriptions: a bulk of n distinct four-letter words, the last one twice,
\* then a tail of up to MaxTail words, separated by runs of whitespace.
Digits == <<"0", "1", "2", "3", "4", "5", "6", "7", "8", "9">>
Word(i) == <<"w", Digits[(i \div 10) + 1], Digits[(i % 10) + 1], "x">>

RECURSIVE JoinRange(_, _, _, _)
JoinRange(words, sep, lo, hi) ==
    IF lo > hi THEN <<>>
    ELSE IF lo = hi THEN words[lo]
    ELSE LET mid == (lo + hi) \div 2
         IN  JoinRange(words, sep, lo, mid) \o sep \o JoinRange(words, sep, mid + 1, hi)

Join(words, sep) == JoinRange(words, sep, 1, Len(words))

BulkWords(n) == [i \in 1..n |-> Word(i)] \o (IF n > 0 THEN <<Word(n)>> ELSE <<>>)
BulkSizes == {0, TopN - 1, TopN}

TailVocab == {Word(90), <<"W", "9", "0", "X">>, <<"a", "b", "c">>, Word(1)}
Tails == UNION {[1..n -> TailVocab] : n \in 0..MaxTail}

DescriptionOf(n, tail) ==
    Join(BulkWords(n), <<" ">>) \o <<" ", "\n">> \o Join(tail, <<"\t">>)

Comment(body, day) == [body |-> body, created |-> [day |-> day, time |-> "T10:00:00"]]

TwoComments ==
    <<Comment(<<"a", "b">>, "2024-01-01"),
      Comment(<<"a", " ", "w", "0", "1", "x">>, "2024-01-02")>>

CommentLists ==
    { <<>>,
      <<Comment(<<>>, "2024-01-01")>>,
      <<Comment(<<"a", "b">>, "2024-01-01")>>,
      TwoComments }

\* Every comment list goes with the short descriptions, two with the long.
CommentListsFor(n) == IF n = 0 THEN CommentLists ELSE {<<>>, TwoComments}

FirstIssue(n, tail, cs) ==
    [key |-> "P-1", description |-> DescriptionOf(n, tail), comments |-> cs,
     labels |-> <<"bug">>, components |-> <<"api">>, attrs |-> {"comment"},
     issuetype |-> "Bug", priority |-> "High"]

\* An issue with no description, whose fields carry no comment attribute.
SecondIssue ==
    [key |-> "P-2", description |-> NoDescription, comments |-> <<>>,
     labels |-> <<"ui", "bug">>, components |-> <<"api", "ui">>, attrs |-> {},
     issuetype |-> "Task", priority |-> None]

FirstIssues ==
    UNION {{FirstIssue(n, t, cs) : t \in Tails, cs \in CommentListsFor(n)} : n \in BulkSizes}

TextWorlds ==
    {<<>>} \cup {<<i>> : i \in FirstIssues} \cup {<<i, SecondIssue>> : i \in FirstIssues}

ComponentMaps == [Projects -> SUBSET CompNames]

RelatedLists == UNION {[1..n -> Projects] : n \in 0..MaxRelated}

NoComponents == [p \in Projects |-> {}]

WalkRemotes ==
    {[links |-> l, issues |-> <<>>, components |-> NoComponents] : l \in LinkStores}

TextRemotes ==
    {[links |-> <<>>, issues |-> w, components |-> NoComponents] : w \in TextWorlds}

XrefRemotes ==
    {[links |-> <<>>, issues |-> w, components |-> c] :
        w \in {<<>>, <<SecondIssue>>}, c \in ComponentMaps}

\* A few trackers with links, issues and components together.
SmallRemotes ==
    {[links |-> l, issues |-> w, components |-> c] :
        l \in {<<>>, <<[src |-> "P-1", dst |-> "P-2"], [src |-> "P-2", dst |-> "P-1"]>>},
        w \in {<<>>, <<FirstIssue(0, <<Word(90)>>, <<Comment(<<"a", "b">>, "2024-01-01")>>),
                       SecondIssue>>},
        c \in {NoComponents, [p \in Projects |-> IF p = "R" THEN {"ui"} ELSE {"api", "ui"}]}}

----------------------------------------------------------------------------
(* Specifications *)

NoRet == [op |-> "none", args |-> <<>>, raised |-> NoError, value |-> <<>>]

\* The state after JiraAnalyzer() is constructed, for variant set V and
\* tracker set R.
InitWith(V, R) ==
    /\ variant \in V
    /\ remote \in R
    /\ jira = NoSession
    /\ server = None
    /\ opened = 0
    /\ succeeded = FALSE
    /\ ret = NoRet
    /\ calls = <<>>
    /\ pc = "idle"
    /\ depth = 0
    /\ stack = <<>>
    /\ visited = {}
    /\ visits = <<>>

Connect == \E u \in Usernames, t \in Tokens, o \in Outcomes : ConnectToJira(u, t, o)

\* Connecting with a username and a token until a session is open, as the
\* runs of one tool do.
ConnectOnce == jira = NoSession /\ \E o \in Outcomes : ConnectToJira("user", "tok", o)

ConnectB ==
    \/ \E t \in Tokens : ConnectBlockNoToken(t)
    \/ \E t \in Tokens, o1 \in Outcomes, o2 \in Outcomes : ConnectBlock(t, o1, o2)

Details == \E k \in Keys : GetIssueDetails(k)
Search == \E p \in Projects, n \in {1, SearchMaxResults, BlockMaxResults} : SearchIssues(p, n)
Relationships == \E k \in Keys, d \in {0, 2} : AnalyzeIssueRelationships(k, d)
RootRelationships == \E d \in Depths : AnalyzeIssueRelationships(RootKey, d)
Text == \E p \in Projects : AnalyzeTextContent(p)
Xref == \E p \in Projects, rs \in RelatedLists : GetCrossProjectReferences(p, rs)
XrefPair == \E p \in Projects : GetCrossProjectReferences(p, <<"Q", "R">>)
Info == \E p \in Projects : GetProjectInfo(p)
ProjectMetrics == \E p \in Projects : AnalyzeProjectMetrics(p)
Help == \E t \in HelpTopics \cup {"other"} : GetHelp(t)

\* Every tool of every variant, against the small trackers.
Init == InitWith(Variants, SmallRemotes)
Next ==
    \/ Connect \/ ConnectB
    \/ Details \/ Search \/ Relationships \/ Text \/ XrefPair
    \/ Info \/ ProjectMetrics \/ Help
    \/ WalkStep
Spec == Init /\ [][Next]_vars

\* The relationship walk from the root issue, against every link store.
InitWalk == InitWith({"pkg"}, WalkRemotes)
NextWalk == ConnectOnce \/ RootRelationships \/ WalkStep
SpecWalk == InitWalk /\ [][NextWalk]_vars

\* A tool invocation runs to completion: the walk keeps taking steps.
FairWalk == SpecWalk /\ WF_vars(WalkStep)

\* Text analysis, against every text world.
InitText == InitWith({"pkg"}, TextRemotes)
NextText == ConnectOnce \/ Text
SpecText == InitText /\ [][NextText]_vars

\* Cross-project references, against every component map.
InitXref == InitWith({"pkg"}, XrefRemotes)
NextXref == ConnectOnce \/ Xref
SpecXref == InitXref /\ [][NextXref]_vars

----------------------------------------------------------------------------
(* Properties *)

AnalysisOps ==
    {"get_issue_details", "search_issues", "analyze_issue_relationships",
     "analyze_text_content", "get_cross_project_references", "get_project_info",
     "analyze_project_metrics"}

IsConnect == ret.op = "connect_to_jira"

\* The latest invocation ran to its end and returned a value.
Finished(op) == pc = "idle" /\ ret.op = op /\ ret.raised = NoError

\* The positions of the calls of the latest invocation that raised a fault.
Faulted == {i \in 1..Len(calls) : calls[i].outcome # "ok"}

\* C1: in every variant, an analysis operation invoked while no connect call
\* has returned success signals "Not connected to JIRA" and issues no remote
\* call.
C1_RefusedUntilConnected ==
    (ret.op \in AnalysisOps /\ ~succeeded)
        => (ret.raised = NotConnected /\ calls = <<>>)

\* C2: connect never raises.  When the remote client faults while the session
\* is established, connect returns the fault's description as a string and
\* the tool returns "Failed to connect: " with it; when the client does not
\* fault, connect returns True and the tool reports success.
C2_ConnectNeverRaises ==
    IsConnect =>
        /\ ret.raised = NoError
        /\ (calls # <<>> /\ Faulted = {}) =>
              /\ ret.value.result = ReturnTrue
              /\ ret.value.text = SuccessText(variant)
              /\ HasSession(jira)
        /\ \A i \in Faulted :
              /\ ret.value.result = ReturnStr(calls[i].outcome)
              /\ ret.value.text = "Failed to connect: "
              /\ ret.value.detail = calls[i].outcome

\* A connect during which the remote client timed out.
C2_Witness ==
    /\ IsConnect
    /\ variant = "pkg"
    /\ Faulted # {}
    /\ ret.value.detail = "timed out"

\* C3: connecting with no username and no api_token yields a failure result:
\* nothing is raised, connect does not return True, the tool does not report
\* success and the call opens no session.
C3_NoCredentialsFails ==
    (IsConnect /\ ~Truthy(ret.args.username) /\ ~Truthy(ret.args.api_token)) =>
        /\ ret.raised = NoError
        /\ ret.value.result # ReturnTrue
        /\ ret.value.text # SuccessText(variant)
        /\ \A i \in 1..Len(calls) : ~(calls[i].method = "JIRA" /\ calls[i].outcome = "ok")

----------------------------------------------------------------------------
(* Relationship walk *)

WalkOp == "analyze_issue_relationships"

\* The issue reads of the latest invocation, in order.
Fetches == SelectSeq(calls, LAMBDA c : c.method = "issue")

Link(a, b) == [src |-> a, dst |-> b]

\* The number of link levels in a relationship map.
RECURSIVE Nesting(_)
Nesting(d) ==
    IF d = EmptyDict THEN 0
    ELSE LET below == {Nesting(d[i].v.links) : i \in 1..Len(d)}
         IN  1 + CHOOSE n \in below : \A m \in below : m <= n

\* The walker's own state is meaningful from the start of a walk on.
Walking == ret.op = WalkOp /\ ret.raised # NotConnected

\* C4: during one call of analyze_issue_relationships no issue key is visited
\* twice: each key is added to the visited set at most once and read from the
\* remote tracker at most once, whatever the links are.
C4_NoKeyVisitedTwice ==
    Walking =>
        /\ \A i, j \in 1..Len(visits) : i # j => visits[i].key # visits[j].key
        /\ \A i, j \in 1..Len(Fetches) : i # j => Fetches[i].arg # Fetches[j].arg
        /\ visited = {visits[i].key : i \in 1..Len(visits)}
        /\ Len(Fetches) = Len(visits)

\* A finished walk over a cycle with links in both directions between the
\* same two issues, which expanded all three issues.
C4_Witness ==
    /\ Finished(WalkOp)
    /\ remote.links = <<Link("P-1", "P-2"), Link("P-2", "P-1"), Link("P-2", "Q-1")>>
    /\ ret.args.depth = 3
    /\ Len(visits) = 3

\* C5: the walk never exceeds the requested depth.  With the root at level 1
\* no issue is read or expanded at a level above depth, so the relationship
\* map has at most depth link levels; depth = 1 on an issue without links
\* gives the empty map, and depth <= 0 gives the empty map without reading
\* the root.
C5_DepthBound ==
    Walking =>
        /\ \A i \in 1..Len(visits) : visits[i].level >= FirstLevel /\ visits[i].level <= depth
        /\ \A i \in 1..Len(stack) : stack[i].phase = "loop" => stack[i].level <= depth
        /\ \A i \in 1..Len(stack) : stack[i].level <= (IF depth > 0 THEN depth ELSE 0) + 1
        /\ depth <= 0 => (visits = <<>> /\ Fetches = <<>>)
        /\ Finished(WalkOp) =>
              /\ Nesting(ret.value.relationships) <= (IF depth > 0 THEN depth ELSE 0)
              /\ depth <= 0 => ret.value.relationships = EmptyDict
              /\ (depth = 1 /\ TargetsOf(RemoteIssue(remote, ret.args.issue_key)) = <<>>)
                    => ret.value.relationships = EmptyDict

\* A finished walk of depth 2 along a chain of three issues: the third issue
\* is listed at the second level and is not expanded.
C5_Witness ==
    /\ Finished(WalkOp)
    /\ remote.links = <<Link("P-1", "P-2"), Link("P-2", "Q-1")>>
    /\ ret.args.depth = 2
    /\ Nesting(ret.value.relationships) = 2
    /\ "Q-1" \notin visited

\* C6: analyze_issue_relationships terminates on every link store and every
\* depth: a running walk always comes to its end, and never by exhausting the
\* interpreter's stack.
C6_WalkTerminates ==
    /\ [](ret.raised # RecursionError)
    /\ (pc = "walk") ~> (pc = "idle")

\* A finished walk of the largest depth over issues that link to themselves
\* and to each other.
C6_Witness ==
    /\ Finished(WalkOp)
    /\ remote.links = <<Link("P-1", "P-1"), Link("P-1", "P-2"), Link("P-2", "P-1")>>
    /\ ret.args.depth = MaxDepth
    /\ Len(visits) = 2

----------------------------------------------------------------------------
(* Text analysis *)

TextOp == "analyze_text_content"

\* The issues the search of the latest text analysis returned.
Found == RemoteSearch(remote, ret.args.project_key, TextMaxResults)

\* The comments of those issues, as positions <<issue, comment>>, and their
\* characters, as positions <<issue, comment, character>>.
CommentPositions(issues) ==
    UNION {{<<i, j>> : j \in 1..Len(issues[i].comments)} :
              i \in {n \in 1..Len(issues) : "comment" \in issues[n].attrs}}

CharPositions(issues) ==
    UNION {{<<p[1], p[2], c>> : c \in 1..Len(issues[p[1]].comments[p[2]].body)} :
              p \in CommentPositions(issues)}

\* C7: text analysis of an issue set without comments, the empty set first of
\* all, returns total_comments = 0 and avg_comment_length = 0, and on no
\* issues the term, label and component tables are empty; the average is a
\* quotient only when there are comments, so the analysis never fails on a
\* division by zero.
C7_NoCommentsZeroAverage ==
    ret.op = TextOp =>
        /\ ret.raised \in {NoError, NotConnected}
        /\ ret.raised = NoError =>
              LET n     == Cardinality(CommentPositions(Found))
                  chars == Cardinality(CharPositions(Found))
                  cp    == ret.value.comment_patterns
              IN  /\ cp.total_comments = n
                  /\ n = 0 => cp.avg_comment_length = Zero
                  /\ n > 0 => cp.avg_comment_length = Fraction(chars, n)
                  /\ Found = <<>> =>
                        /\ ret.value.common_terms = EmptyDict
                        /\ ret.value.labels = EmptyDict
                        /\ ret.value.components_referenced = EmptyDict

\* A text analysis that returned on a query with no issues.
C7_Witness ==
    /\ Finished(TextOp)
    /\ ret.args.project_key = "P"
    /\ Found = <<>>
    /\ ret.value.comment_patterns.total_comments = 0

\* The counted words of the issues, in the order the analysis meets them.
RECURSIVE WordsFrom(_, _)
WordsFrom(issues, i) ==
    IF i > Len(issues) THEN <<>>
    ELSE CountedWords(issues[i].description) \o WordsFrom(issues, i + 1)

Occurrences(words, w) == Cardinality({p \in 1..Len(words) : words[p] = w})
FirstSeen(words, w) == CHOOSE p \in 1..Len(words) : words[p] = w /\ \A q \in 1..(p - 1) : words[q] # w

\* Item a ranks before item b: a higher count, or the same count and met earlier.
RanksBefore(words, a, b) ==
    a.v > b.v \/ (a.v = b.v /\ FirstSeen(words, a.k) < FirstSeen(words, b.k))

\* C8: common_terms has at most 50 entries, each with the count of its term,
\* in descending order of count with equal counts in the order the terms were
\* first met; every term left out ranks behind every entry, so the table is
\* the 50 highest-count terms and at a tie the term met earlier is kept.
C8_TopTerms ==
    Finished(TextOp) =>
        LET terms == ret.value.common_terms
            words == WordsFrom(Found, 1)
            all   == {words[p] : p \in 1..Len(words)}
            kept  == {terms[i].k : i \in 1..Len(terms)}
        IN  /\ Len(terms) <= TopN
            /\ Cardinality(kept) = Len(terms)
            /\ kept \subseteq all
            /\ \A i \in 1..Len(terms) : terms[i].v = Occurrences(words, terms[i].k)
            /\ \A i \in 1..(Len(terms) - 1) : RanksBefore(words, terms[i], terms[i + 1])
            /\ all # kept =>
                  /\ Len(terms) = TopN
                  /\ \A w \in all \ kept :
                        RanksBefore(words, terms[TopN], [k |-> w, v |-> Occurrences(words, w)])

\* A text analysis that cut the table at 50 entries between two terms of the
\* same count.
C8_Witness ==
    /\ Finished(TextOp)
    /\ Len(ret.value.common_terms) = TopN
    /\ LET words == WordsFrom(Found, 1)
           kept  == {ret.value.common_terms[i].k : i \in 1..TopN}
       IN  \E p \in 1..Len(words) :
              /\ words[p] \notin kept
              /\ Occurrences(words, words[p]) = ret.value.common_terms[TopN].v

----------------------------------------------------------------------------
(* Term counts *)

\* The positions of text s where a whitespace-separated token starts, and
\* the position where the token starting at a ends.
TokenStarts(s) ==
    {a \in 1..Len(s) : s[a] \notin Whitespace /\ (a = 1 \/ s[a - 1] \in Whitespace)}

TokenEnd(s, a) ==
    CHOOSE b \in a..Len(s) :
        /\ \A j \in a..b : s[j] \notin Whitespace
        /\ b = Len(s) \/ s[b + 1] \in Whitespace

\* The tokens of more than 3 characters of the lowercased descriptions of
\* the issues, as positions <<issue, start>>, and the token at a position.
LongTokens(issues) ==
    UNION {{<<i, a>> : a \in {x \in TokenStarts(issues[i].description) :
                                 TokenEnd(issues[i].description, x) - x >= MinWordLen}} :
              i \in {n \in 1..Len(issues) : issues[n].description # NoDescription}}

TokenAt(issues, p) ==
    LET s == issues[p[1]].description
    IN  LowerStr(SubSeq(s, p[2], TokenEnd(s, p[2])))

\* C13: before truncation the term table of analyze_text_content holds, for
\* each word, the number of whitespace-separated tokens of the lowercased
\* descriptions that equal it and have more than 3 characters, and no other
\* word: short tokens, issues without description and comment bodies add
\* nothing.  The returned table is taken from it.
C13_TermCounts ==
    Finished(TextOp) =>
        LET table  == TextLoop(TextStart, Found, 1).common_terms
            tokens == LongTokens(Found)
        IN  /\ Cardinality(DictKeys(table)) = Len(table)
            /\ DictKeys(table) = {TokenAt(Found, p) : p \in tokens}
            /\ \A i \in 1..Len(table) :
                  table[i].v = Cardinality({p \in tokens : TokenAt(Found, p) = table[i].k})
            /\ \A i \in 1..Len(ret.value.common_terms) :
                  \E j \in 1..Len(table) : table[j] = ret.value.common_terms[i]
            /\ Len(ret.value.common_terms) = IF Len(table) < TopN THEN Len(table) ELSE TopN

\* A text analysis of two issues: the first with a description of an
\* upper-case word, the same word in lower case and a three-letter word, and
\* with comments that hold a long word; the second without description.
C13_Witness ==
    /\ Finished(TextOp)
    /\ Len(Found) = 2
    /\ Found[2].description = NoDescription
    /\ Found[1].comments = TwoComments
    /\ \E t \in Tails :
          /\ Len(t) = 2
          /\ t[1] # t[2]
          /\ {LowerStr(t[1]), LowerStr(t[2])} = {Word(90)}
          /\ Found[1].description = DescriptionOf(0, t)
    /\ ret.value.common_terms = <<[k |-> Word(90), v |-> 2]>>

----------------------------------------------------------------------------
(* Cross-project references *)

XrefOp == "get_cross_project_references"

\* C9: for every related project of the argument list, shared_components
\* holds for it exactly the names that are components of both the main and
\* the related project, an absent entry being the empty set.
C9_SharedIsIntersection ==
    Finished(XrefOp) =>
        \A i \in 1..Len(ret.args.related_projects) :
            LET related == ret.args.related_projects[i]
                got == DictGet(ret.value.shared_components, related, {})
            IN  \A name \in CompNames :
                    name \in got <=>
                        (name \in remote.components[ret.args.project_key]
                         /\ name \in remote.components[related])

\* References of P to Q and R where P and Q share one of P's two components
\* and P and R share none.
C9_Witness ==
    /\ Finished(XrefOp)
    /\ ret.args.project_key = "P"
    /\ ret.args.related_projects = <<"Q", "R">>
    /\ remote.components["P"] = {"api", "ui"}
    /\ DictGet(ret.value.shared_components, "Q", {}) = {"api"}
    /\ "R" \notin DictKeys(ret.value.shared_components)
    /\ remote.components["R"] = {}

----------------------------------------------------------------------------
(* Reads only *)

\* C10: no operation mutates the remote tracker: every remote call issued is
\* a read (session open, current user, issue, search, project, project
\* components), and no step of any tool changes the tracker's data.
C10_ReadOnly ==
    /\ [](\A i \in 1..Len(calls) : calls[i].method \in ReadMethods)
    /\ [][remote' = remote]_vars

\* Issue details read from a tracker that holds issues, with a session open.
C10_Witness ==
    /\ Finished("get_issue_details")
    /\ HasSession(jira)
    /\ remote.issues # <<>>
    /\ Len(calls) = 1

----------------------------------------------------------------------------
(* Entries of the relationship map *)

\* The recursive call on top of the stack was made for a link whose neighbour
\* was already visited when the link was processed, and now returns to its
\* caller.
ReturnsForVisited ==
    /\ pc = "walk"
    /\ Len(stack) >= 2
    /\ Top.phase = "enter"
    /\ Top.key \in visited
    /\ Len(stack') = Len(stack) - 1

\* C12: an entry is emitted for each unvisited link only.  A link whose
\* neighbour is already visited when the link is processed (a back-link, a
\* second link to the same neighbour) adds no entry to the links of the issue
\* being expanded and replaces none.
C12_EntriesForUnvisitedOnly ==
    [][ReturnsForVisited =>
          stack'[Len(stack')].links = stack[Len(stack) - 1].links]_vars

----------------------------------------------------------------------------
(* Complete expansion *)

\* The issues one link away from issue k, in either direction.
Neighbours(k) ==
    {l.dst : l \in {remote.links[i] : i \in {n \in 1..Len(remote.links) :
                                                remote.links[n].src = k}}}
    \cup {l.src : l \in {remote.links[i] : i \in {n \in 1..Len(remote.links) :
                                                     remote.links[n].dst = k}}}

\* The issues at most n links from issue k.
RECURSIVE Within(_, _)
Within(k, n) ==
    IF n <= 0 THEN {k}
    ELSE LET near == Within(k, n - 1)
         IN  near \cup UNION {Neighbours(x) : x \in near}

\* The items of a relationship map, those of its nested maps included.
RECURSIVE AllEntries(_)
AllEntries(links) ==
    UNION {{links[i]} \cup AllEntries(links[i].v.links) : i \in 1..Len(links)}

\* C15: for depth >= 1 the returned map is complete up to the depth bound:
\* every issue at most depth links from the root is a key somewhere in it,
\* and every issue fewer than depth links from the root has its links listed,
\* the root in the map itself and any other issue in one of its entries.
C15_CompleteExpansion ==
    (Finished(WalkOp) /\ ret.args.depth >= 1) =>
        LET root    == ret.args.issue_key
            map     == ret.value.relationships
            entries == AllEntries(map)
        IN  /\ \A k \in Within(root, ret.args.depth) \ {root} :
                  \E e \in entries : e.k = k
            /\ DictKeys(map) = Neighbours(root)
            /\ \A k \in Within(root, ret.args.depth - 1) \ {root} :
                  \E e \in entries : e.k = k /\ DictKeys(e.v.links) = Neighbours(k)

----------------------------------------------------------------------------
(* The session after a failed connect *)

\* C14: a connect attempt that returns a failure leaves the session as it
\* was, in every variant: the session handle changes only in a step of
\* connect_to_jira that returns success.
C14_FailedConnectKeepsSession ==
    [][jira' # jira =>
          /\ ret'.op = "connect_to_jira"
          /\ ret'.raised = NoError
          /\ ret'.value.result = ReturnTrue]_vars

----------------------------------------------------------------------------
(* Returned values *)

\* C11: every operation that returns, returns a value built only from
\* mappings, lists, strings, numbers, booleans and null; the result of
\* get_cross_project_references holds no set.
C11_JsonSerializable ==
    (pc = "idle" /\ ret.op # "none" /\ ret.raised = NoError)
        => ReturnTypes(ret.op, ret.value) \subseteq JsonTypes

====
